---- MODULE Spec2Model ----
(***************************************************************************)
(* Model of chanxuehong/session, src/session.go (version 1.2.3): the       *)
(* Storage engine with its lruList ("live list"), freeList, cache          *)
(* ("Index"), the handlers Add, Set, Get, Delete, SetCapacity and the      *)
(* Reclaimer sweep gc.                                                     *)
(*                                                                         *)
(* Every public method takes s.mu first, reads time.Now().Unix() inside    *)
(* the critical section and releases the lock on return.  Spec takes one   *)
(* handler as one atomic action.  ConcSpec and GCSpec run the goroutines   *)
(* (two callers and the gc service started by New) step by step: Lock,     *)
(* clock reading, body and Unlock, the send of SetGCInterval and the       *)
(* select of the gc service; FairGCSpec adds the fairness of the Go        *)
(* scheduler and of sync.Mutex.  NewSpec is the call of New with arguments *)
(* in and out of range.  list.Element objects are modelled as node ids,    *)
(* the fields of the element an id names are kept in elem.                 *)
(***************************************************************************)
EXTENDS Integers, Sequences, FiniteSets, TLC

(***************************************************************************)
(* Bounds of the model.                                                    *)
(***************************************************************************)
MaxTime     == 2     \* the clock runs over 0..MaxTime
MaxAge      == 1     \* New is called with this maxAge (seconds)
MaxCapacity == 2     \* New and SetCapacity are called with capacity up to this

\* Go's int is as wide as the platform's word.  The model scales the word
\* down to these widths (two's complement), so that the largest int is a
\* length the live list can have.
IntWidths == {2, 3}

Keys   == {"", "a", "b"}
NilValue == "nil"
Values == {NilValue, "v1"}

\* list.Element objects: as many as the lists can hold at once
NodeIds ==
    LET sizes == {MaxCapacity} \cup {2 ^ (w - 1) - 1 : w \in IntWidths}
    IN  1 .. (CHOOSE n \in sizes : \A x \in sizes : x <= n)
NilElem == 0

ErrNil       == "nil"
ErrNotFound  == "session: item not found"
ErrNotStored == "session: item not stored"

VARIABLES
    lruList,    \* s.lruList : sequence of node ids, front first
    freeList,   \* s.freeList: sequence of node ids, front first
    cache,      \* s.cache   : function from the keys present to node ids
    elem,       \* the fields Key, Value, Expiration of every list.Element
    maxAge,     \* s.maxAge
    capacity,   \* s.capacity
    intBits,    \* the width of Go's int on the platform
    now,        \* time.Now().Unix()
    path,       \* the handler that ran last and the branch it took
    err,        \* the error the last handler returned
    ret         \* the value the last Get returned

\* the goroutines: the callers of the public methods and the gc service
VARIABLES
    mu,         \* s.mu: "free" or the goroutine that holds it
    pc,         \* where every goroutine is in the method it runs
    frame       \* the arguments and locals of the method every goroutine runs

storeVars == <<lruList, freeList, cache, elem, maxAge, capacity, intBits, now, path, err, ret>>
procVars  == <<mu, pc, frame>>
vars == <<storeVars, procVars>>

ZeroElem == [Key |-> "", Value |-> NilValue, Expiration |-> 0]

(***************************************************************************)
(* package list (github.com/chanxuehong/session/list): the intrusive list. *)
(***************************************************************************)
PushFront(l, e) == <<e>> \o l

RemoveFront(l) == IF l = <<>> THEN l ELSE Tail(l)

Remove(l, e) == SelectSeq(l, LAMBDA x : x # e)

MoveToFront(l, e) == <<e>> \o Remove(l, e)

Back(l) == IF l = <<>> THEN NilElem ELSE l[Len(l)]

Front(l) == IF l = <<>> THEN NilElem ELSE l[1]

(***************************************************************************)
(* Go's map operations on s.cache.                                         *)
(***************************************************************************)
MapDelete(m, k) == [x \in (DOMAIN m) \ {k} |-> m[x]]

MapStore(m, k, e) == [x \in (DOMAIN m) \cup {k} |-> IF x = k THEN e ELSE m[x]]

hit(key) == key \in DOMAIN cache

(***************************************************************************)
(* Go's int: the largest value, and n << 1 in two's complement.            *)
(***************************************************************************)
MaxInt == 2 ^ (intBits - 1) - 1

Shl1(n) ==
    LET u == (2 * n) % (2 ^ intBits)
    IN  IF u >= 2 ^ (intBits - 1) THEN u - 2 ^ intBits ELSE u

(***************************************************************************)
(* &list.Element{...}: a node that is in neither list.                     *)
(***************************************************************************)
Range(l) == {l[i] : i \in 1 .. Len(l)}

NewElement ==
    CHOOSE e \in NodeIds :
        /\ e \notin Range(lruList) \cup Range(freeList)
        /\ \A f \in NodeIds :
              f \notin Range(lruList) \cup Range(freeList) => e <= f

Filled(key, value, timenow) ==
    [Key |-> key, Value |-> value, Expiration |-> timenow + maxAge]

(***************************************************************************)
(* Storage.add with the back node recycled under the new key while its old *)
(* key stays in s.cache.                                                   *)
(***************************************************************************)
addKeepsOldKey(key, value, timenow) ==
    LET e == Back(lruList) IN
    IF e # NilElem /\ timenow > elem[e].Expiration
    THEN /\ elem' = [elem EXCEPT ![e] = Filled(key, value, timenow)]
         /\ lruList' = MoveToFront(lruList, e)
         /\ cache' = MapStore(cache, key, e)
         /\ freeList' = freeList
         /\ err' = ErrNil
    ELSE IF Len(freeList) > 0
    THEN LET f == Front(freeList) IN
         /\ elem' = [elem EXCEPT ![f] = Filled(key, value, timenow)]
         /\ freeList' = RemoveFront(freeList)
         /\ lruList' = PushFront(lruList, f)
         /\ cache' = MapStore(cache, key, f)
         /\ err' = ErrNil
    ELSE IF Shl1(Len(lruList)) = -2
    THEN /\ err' = ErrNotStored
         /\ UNCHANGED <<lruList, freeList, cache, elem>>
    ELSE LET n == NewElement IN
         /\ elem' = [elem EXCEPT ![n] = Filled(key, value, timenow)]
         /\ lruList' = PushFront(lruList, n)
         /\ cache' = MapStore(cache, key, n)
         /\ freeList' = freeList
         /\ err' = ErrNil

(***************************************************************************)
(* Storage.add refusing admission once the live list holds capacity        *)
(* elements.                                                               *)
(***************************************************************************)
addRejectsAtCapacity(key, value, timenow) ==
    LET e == Back(lruList) IN
    IF e # NilElem /\ timenow > elem[e].Expiration
    THEN /\ elem' = [elem EXCEPT ![e] = Filled(key, value, timenow)]
         /\ lruList' = MoveToFront(lruList, e)
         /\ cache' = MapStore(MapDelete(cache, elem[e].Key), key, e)
         /\ freeList' = freeList
         /\ err' = ErrNil
    ELSE IF Len(freeList) > 0
    THEN LET f == Front(freeList) IN
         /\ elem' = [elem EXCEPT ![f] = Filled(key, value, timenow)]
         /\ freeList' = RemoveFront(freeList)
         /\ lruList' = PushFront(lruList, f)
         /\ cache' = MapStore(cache, key, f)
         /\ err' = ErrNil
    ELSE IF Len(lruList) >= capacity
    THEN /\ err' = ErrNotStored
         /\ UNCHANGED <<lruList, freeList, cache, elem>>
    ELSE LET n == NewElement IN
         /\ elem' = [elem EXCEPT ![n] = Filled(key, value, timenow)]
         /\ lruList' = PushFront(lruList, n)
         /\ cache' = MapStore(cache, key, n)
         /\ freeList' = freeList
         /\ err' = ErrNil

(***************************************************************************)
(* Storage.add taking the front node of freeList into lruList without      *)
(* unlinking it from freeList.                                             *)
(***************************************************************************)
addLeavesFreeNode(key, value, timenow) ==
    LET e == Back(lruList) IN
    IF e # NilElem /\ timenow > elem[e].Expiration
    THEN /\ elem' = [elem EXCEPT ![e] = Filled(key, value, timenow)]
         /\ lruList' = MoveToFront(lruList, e)
         /\ cache' = MapStore(MapDelete(cache, elem[e].Key), key, e)
         /\ freeList' = freeList
         /\ err' = ErrNil
    ELSE IF Len(freeList) > 0
    THEN LET f == Front(freeList) IN
         /\ elem' = [elem EXCEPT ![f] = Filled(key, value, timenow)]
         /\ freeList' = freeList
         /\ lruList' = PushFront(lruList, f)
         /\ cache' = MapStore(cache, key, f)
         /\ err' = ErrNil
    ELSE IF Shl1(Len(lruList)) = -2
    THEN /\ err' = ErrNotStored
         /\ UNCHANGED <<lruList, freeList, cache, elem>>
    ELSE LET n == NewElement IN
         /\ elem' = [elem EXCEPT ![n] = Filled(key, value, timenow)]
         /\ lruList' = PushFront(lruList, n)
         /\ cache' = MapStore(cache, key, n)
         /\ freeList' = freeList
         /\ err' = ErrNil

(***************************************************************************)
(* Storage.add with the expiry test of the back node written               *)
(* timenow >= e.Expiration.                                                *)
(***************************************************************************)
addRecyclesEarly(key, value, timenow) ==
    LET e == Back(lruList) IN
    IF e # NilElem /\ timenow >= elem[e].Expiration
    THEN /\ elem' = [elem EXCEPT ![e] = Filled(key, value, timenow)]
         /\ lruList' = MoveToFront(lruList, e)
         /\ cache' = MapStore(MapDelete(cache, elem[e].Key), key, e)
         /\ freeList' = freeList
         /\ err' = ErrNil
    ELSE IF Len(freeList) > 0
    THEN LET f == Front(freeList) IN
         /\ elem' = [elem EXCEPT ![f] = Filled(key, value, timenow)]
         /\ freeList' = RemoveFront(freeList)
         /\ lruList' = PushFront(lruList, f)
         /\ cache' = MapStore(cache, key, f)
         /\ err' = ErrNil
    ELSE IF Shl1(Len(lruList)) = -2
    THEN /\ err' = ErrNotStored
         /\ UNCHANGED <<lruList, freeList, cache, elem>>
    ELSE LET n == NewElement IN
         /\ elem' = [elem EXCEPT ![n] = Filled(key, value, timenow)]
         /\ lruList' = PushFront(lruList, n)
         /\ cache' = MapStore(cache, key, n)
         /\ freeList' = freeList
         /\ err' = ErrNil

(***************************************************************************)
(* Storage.add reusing a node of freeList before it looks at the back of   *)
(* lruList.                                                                *)
(***************************************************************************)
addPrefersFreeList(key, value, timenow) ==
    LET e == Back(lruList) IN
    IF Len(freeList) > 0
    THEN LET f == Front(freeList) IN
         /\ elem' = [elem EXCEPT ![f] = Filled(key, value, timenow)]
         /\ freeList' = RemoveFront(freeList)
         /\ lruList' = PushFront(lruList, f)
         /\ cache' = MapStore(cache, key, f)
         /\ err' = ErrNil
    ELSE IF e # NilElem /\ timenow > elem[e].Expiration
    THEN /\ elem' = [elem EXCEPT ![e] = Filled(key, value, timenow)]
         /\ lruList' = MoveToFront(lruList, e)
         /\ cache' = MapStore(MapDelete(cache, elem[e].Key), key, e)
         /\ freeList' = freeList
         /\ err' = ErrNil
    ELSE IF Shl1(Len(lruList)) = -2
    THEN /\ err' = ErrNotStored
         /\ UNCHANGED <<lruList, freeList, cache, elem>>
    ELSE LET n == NewElement IN
         /\ elem' = [elem EXCEPT ![n] = Filled(key, value, timenow)]
         /\ lruList' = PushFront(lruList, n)
         /\ cache' = MapStore(cache, key, n)
         /\ freeList' = freeList
         /\ err' = ErrNil

(***************************************************************************)
(* Storage.add: admission of a key that is not in s.cache.                 *)
(***************************************************************************)
add(key, value, timenow) ==
    LET e == Back(lruList) IN
    IF e # NilElem /\ timenow > elem[e].Expiration
    THEN /\ elem' = [elem EXCEPT ![e] = Filled(key, value, timenow)]
         /\ lruList' = MoveToFront(lruList, e)
         /\ cache' = MapStore(MapDelete(cache, elem[e].Key), key, e)
         /\ freeList' = freeList
         /\ err' = ErrNil
    ELSE IF Len(freeList) > 0
    THEN LET f == Front(freeList) IN
         /\ elem' = [elem EXCEPT ![f] = Filled(key, value, timenow)]
         /\ freeList' = RemoveFront(freeList)
         /\ lruList' = PushFront(lruList, f)
         /\ cache' = MapStore(cache, key, f)
         /\ err' = ErrNil
    ELSE IF Shl1(Len(lruList)) = -2
    THEN /\ err' = ErrNotStored
         /\ UNCHANGED <<lruList, freeList, cache, elem>>
    ELSE LET n == NewElement IN
         /\ elem' = [elem EXCEPT ![n] = Filled(key, value, timenow)]
         /\ lruList' = PushFront(lruList, n)
         /\ cache' = MapStore(cache, key, n)
         /\ freeList' = freeList
         /\ err' = ErrNil

(***************************************************************************)
(* Storage.remove discarding the node whenever the lists hold more than    *)
(* capacity nodes, whatever the length of the live list.                   *)
(***************************************************************************)
removeDiscardsWhenOversized(e) ==
    LET totalLen == Len(lruList) + Len(freeList) IN
    /\ cache' = MapDelete(cache, elem[e].Key)
    /\ lruList' = Remove(lruList, e)
    /\ IF totalLen > capacity
       THEN /\ freeList' = freeList
            /\ elem' = [elem EXCEPT ![e] = ZeroElem]
       ELSE /\ freeList' = PushFront(freeList, e)
            /\ elem' = [elem EXCEPT ![e].Key = "", ![e].Value = NilValue]

(***************************************************************************)
(* Storage.remove reading the two lengths after e has been unlinked from   *)
(* lruList.                                                                *)
(***************************************************************************)
removeCountsAfterUnlink(e) ==
    LET unlinked == Remove(lruList, e)
        totalLen == Len(unlinked) + Len(freeList)
    IN
    /\ cache' = MapDelete(cache, elem[e].Key)
    /\ lruList' = unlinked
    /\ IF totalLen > capacity /\ Len(unlinked) < (capacity - capacity \div 5)
       THEN /\ freeList' = freeList
            /\ elem' = [elem EXCEPT ![e] = ZeroElem]
       ELSE /\ freeList' = PushFront(freeList, e)
            /\ elem' = [elem EXCEPT ![e].Key = "", ![e].Value = NilValue]

(***************************************************************************)
(* Storage.remove without the statement e.Key = "".                        *)
(***************************************************************************)
removeLeavesKey(e) ==
    LET totalLen == Len(lruList) + Len(freeList) IN
    /\ cache' = MapDelete(cache, elem[e].Key)
    /\ lruList' = Remove(lruList, e)
    /\ IF totalLen > capacity /\ Len(lruList) < (capacity - capacity \div 5)
       THEN /\ freeList' = freeList
            /\ elem' = [elem EXCEPT ![e] = ZeroElem]
       ELSE /\ freeList' = PushFront(freeList, e)
            /\ elem' = [elem EXCEPT ![e].Value = NilValue]

(***************************************************************************)
(* Storage.remove: e is an element of lruList.  Both lengths are read      *)
(* before e is unlinked.  A node that is unlinked and not pushed onto the  *)
(* free list is unreachable; its id is handed back as a zero Element.      *)
(***************************************************************************)
remove(e) ==
    LET totalLen == Len(lruList) + Len(freeList) IN
    /\ cache' = MapDelete(cache, elem[e].Key)
    /\ lruList' = Remove(lruList, e)
    /\ IF totalLen > capacity /\ Len(lruList) < (capacity - capacity \div 5)
       THEN /\ freeList' = freeList
            /\ elem' = [elem EXCEPT ![e] = ZeroElem]
       ELSE /\ freeList' = PushFront(freeList, e)
            /\ elem' = [elem EXCEPT ![e].Key = "", ![e].Value = NilValue]

(***************************************************************************)
(* Storage.Add with the expiry test written timenow >= e.Expiration.       *)
(***************************************************************************)
AddExpiresEarly(key, value) ==
    LET timenow == now IN
    /\ IF hit(key)
       THEN LET e == cache[key] IN
            IF timenow >= elem[e].Expiration
            THEN /\ path' = "Add.hit.expired"
                 /\ elem' = [elem EXCEPT ![e].Value = value,
                                         ![e].Expiration = timenow + maxAge]
                 /\ lruList' = MoveToFront(lruList, e)
                 /\ err' = ErrNil
                 /\ UNCHANGED <<freeList, cache>>
            ELSE /\ path' = "Add.hit.fresh"
                 /\ err' = ErrNotStored
                 /\ UNCHANGED <<lruList, freeList, cache, elem>>
       ELSE /\ path' = "Add.miss"
            /\ add(key, value, timenow)
    /\ ret' = NilValue
    /\ UNCHANGED <<maxAge, capacity, intBits, now>>

(***************************************************************************)
(* Storage.Add with the expired entry overwritten where it stands, the     *)
(* call to MoveToFront left out.                                           *)
(***************************************************************************)
AddStaysInPlace(key, value) ==
    LET timenow == now IN
    /\ IF hit(key)
       THEN LET e == cache[key] IN
            IF timenow > elem[e].Expiration
            THEN /\ path' = "Add.hit.expired"
                 /\ elem' = [elem EXCEPT ![e].Value = value,
                                         ![e].Expiration = timenow + maxAge]
                 /\ lruList' = lruList
                 /\ err' = ErrNil
                 /\ UNCHANGED <<freeList, cache>>
            ELSE /\ path' = "Add.hit.fresh"
                 /\ err' = ErrNotStored
                 /\ UNCHANGED <<lruList, freeList, cache, elem>>
       ELSE /\ path' = "Add.miss"
            /\ add(key, value, timenow)
    /\ ret' = NilValue
    /\ UNCHANGED <<maxAge, capacity, intBits, now>>

(***************************************************************************)
(* Storage.Add from the clock reading on: timenow is what                  *)
(* time.Now().Unix() returned inside the critical section.                 *)
(***************************************************************************)
AddBody(key, value, timenow) ==
    /\ IF hit(key)
       THEN LET e == cache[key] IN
            IF timenow > elem[e].Expiration
            THEN /\ path' = "Add.hit.expired"
                 /\ elem' = [elem EXCEPT ![e].Value = value,
                                         ![e].Expiration = timenow + maxAge]
                 /\ lruList' = MoveToFront(lruList, e)
                 /\ err' = ErrNil
                 /\ UNCHANGED <<freeList, cache>>
            ELSE /\ path' = "Add.hit.fresh"
                 /\ err' = ErrNotStored
                 /\ UNCHANGED <<lruList, freeList, cache, elem>>
       ELSE /\ path' = "Add.miss"
            /\ add(key, value, timenow)
    /\ ret' = NilValue
    /\ UNCHANGED <<maxAge, capacity, intBits, now>>

(***************************************************************************)
(* Storage.Add: lock, clock reading and body in one step.                  *)
(***************************************************************************)
Add(key, value) == AddBody(key, value, now)

(***************************************************************************)
(* Storage.Set with the value overwritten on a hit but e.Expiration left   *)
(* as it was.                                                              *)
(***************************************************************************)
SetKeepsExpiration(key, value) ==
    LET timenow == now IN
    /\ IF hit(key)
       THEN LET e == cache[key] IN
            /\ path' = "Set.hit"
            /\ elem' = [elem EXCEPT ![e].Value = value]
            /\ lruList' = MoveToFront(lruList, e)
            /\ err' = ErrNil
            /\ UNCHANGED <<freeList, cache>>
       ELSE /\ path' = "Set.miss"
            /\ add(key, value, timenow)
    /\ ret' = NilValue
    /\ UNCHANGED <<maxAge, capacity, intBits, now>>

(***************************************************************************)
(* Storage.Set with the node left where it is in lruList on a hit.         *)
(***************************************************************************)
SetStaysInPlace(key, value) ==
    LET timenow == now IN
    /\ IF hit(key)
       THEN LET e == cache[key] IN
            /\ path' = "Set.hit"
            /\ elem' = [elem EXCEPT ![e].Value = value,
                                    ![e].Expiration = timenow + maxAge]
            /\ lruList' = lruList
            /\ err' = ErrNil
            /\ UNCHANGED <<freeList, cache>>
       ELSE /\ path' = "Set.miss"
            /\ add(key, value, timenow)
    /\ ret' = NilValue
    /\ UNCHANGED <<maxAge, capacity, intBits, now>>

(***************************************************************************)
(* Storage.Set from the clock reading on.                                  *)
(***************************************************************************)
SetBody(key, value, timenow) ==
    /\ IF hit(key)
       THEN LET e == cache[key] IN
            /\ path' = "Set.hit"
            /\ elem' = [elem EXCEPT ![e].Value = value,
                                    ![e].Expiration = timenow + maxAge]
            /\ lruList' = MoveToFront(lruList, e)
            /\ err' = ErrNil
            /\ UNCHANGED <<freeList, cache>>
       ELSE /\ path' = "Set.miss"
            /\ add(key, value, timenow)
    /\ ret' = NilValue
    /\ UNCHANGED <<maxAge, capacity, intBits, now>>

(***************************************************************************)
(* Storage.Set: lock, clock reading and body in one step.                  *)
(***************************************************************************)
Set(key, value) == SetBody(key, value, now)

(***************************************************************************)
(* Storage.Get reporting ErrNotFound for an expired entry without the call *)
(* to s.remove(e).                                                         *)
(***************************************************************************)
GetLeavesExpired(key) ==
    /\ IF hit(key)
       THEN LET e == cache[key]
                timenow == now
            IN  IF timenow > elem[e].Expiration
                THEN /\ path' = "Get.hit.expired"
                     /\ ret' = NilValue
                     /\ err' = ErrNotFound
                     /\ UNCHANGED <<lruList, freeList, cache, elem>>
                ELSE /\ path' = "Get.hit.fresh"
                     /\ elem' = [elem EXCEPT ![e].Expiration = timenow + maxAge]
                     /\ lruList' = MoveToFront(lruList, e)
                     /\ ret' = elem[e].Value
                     /\ err' = ErrNil
                     /\ UNCHANGED <<freeList, cache>>
       ELSE /\ path' = "Get.miss"
            /\ ret' = NilValue
            /\ err' = ErrNotFound
            /\ UNCHANGED <<lruList, freeList, cache, elem>>
    /\ UNCHANGED <<maxAge, capacity, intBits, now>>

(***************************************************************************)
(* Storage.Get returning the value of a fresh entry without the assignment *)
(* e.Expiration = timenow + s.maxAge.                                      *)
(***************************************************************************)
GetDoesNotSlide(key) ==
    /\ IF hit(key)
       THEN LET e == cache[key]
                timenow == now
            IN  IF timenow > elem[e].Expiration
                THEN /\ path' = "Get.hit.expired"
                     /\ remove(e)
                     /\ ret' = NilValue
                     /\ err' = ErrNotFound
                ELSE /\ path' = "Get.hit.fresh"
                     /\ elem' = elem
                     /\ lruList' = MoveToFront(lruList, e)
                     /\ ret' = elem[e].Value
                     /\ err' = ErrNil
                     /\ UNCHANGED <<freeList, cache>>
       ELSE /\ path' = "Get.miss"
            /\ ret' = NilValue
            /\ err' = ErrNotFound
            /\ UNCHANGED <<lruList, freeList, cache, elem>>
    /\ UNCHANGED <<maxAge, capacity, intBits, now>>

(***************************************************************************)
(* Storage.Get with the node left where it is in lruList on a fresh hit.   *)
(***************************************************************************)
GetStaysInPlace(key) ==
    /\ IF hit(key)
       THEN LET e == cache[key]
                timenow == now
            IN  IF timenow > elem[e].Expiration
                THEN /\ path' = "Get.hit.expired"
                     /\ remove(e)
                     /\ ret' = NilValue
                     /\ err' = ErrNotFound
                ELSE /\ path' = "Get.hit.fresh"
                     /\ elem' = [elem EXCEPT ![e].Expiration = timenow + maxAge]
                     /\ lruList' = lruList
                     /\ ret' = elem[e].Value
                     /\ err' = ErrNil
                     /\ UNCHANGED <<freeList, cache>>
       ELSE /\ path' = "Get.miss"
            /\ ret' = NilValue
            /\ err' = ErrNotFound
            /\ UNCHANGED <<lruList, freeList, cache, elem>>
    /\ UNCHANGED <<maxAge, capacity, intBits, now>>

(***************************************************************************)
(* Storage.Get with timenow the clock reading it takes on a hit.           *)
(***************************************************************************)
GetBody(key, timenow) ==
    /\ IF hit(key)
       THEN LET e == cache[key]
            IN  IF timenow > elem[e].Expiration
                THEN /\ path' = "Get.hit.expired"
                     /\ remove(e)
                     /\ ret' = NilValue
                     /\ err' = ErrNotFound
                ELSE /\ path' = "Get.hit.fresh"
                     /\ elem' = [elem EXCEPT ![e].Expiration = timenow + maxAge]
                     /\ lruList' = MoveToFront(lruList, e)
                     /\ ret' = elem[e].Value
                     /\ err' = ErrNil
                     /\ UNCHANGED <<freeList, cache>>
       ELSE /\ path' = "Get.miss"
            /\ ret' = NilValue
            /\ err' = ErrNotFound
            /\ UNCHANGED <<lruList, freeList, cache, elem>>
    /\ UNCHANGED <<maxAge, capacity, intBits, now>>

(***************************************************************************)
(* Storage.Get: lock, clock reading and body in one step.                  *)
(***************************************************************************)
Get(key) == GetBody(key, now)

(***************************************************************************)
(* Storage.Delete reporting ErrNotFound when the entry it removes is       *)
(* expired, as the revision without a free list did.                       *)
(***************************************************************************)
DeleteReportsExpired(key) ==
    /\ IF hit(key)
       THEN /\ path' = "Delete.hit"
            /\ remove(cache[key])
            /\ err' = IF now > elem[cache[key]].Expiration
                      THEN ErrNotFound ELSE ErrNil
       ELSE /\ path' = "Delete.miss"
            /\ err' = ErrNil
            /\ UNCHANGED <<lruList, freeList, cache, elem>>
    /\ ret' = NilValue
    /\ UNCHANGED <<maxAge, capacity, intBits, now>>

(***************************************************************************)
(* Storage.Delete                                                          *)
(***************************************************************************)
Delete(key) ==
    /\ IF hit(key)
       THEN /\ path' = "Delete.hit"
            /\ remove(cache[key])
       ELSE /\ path' = "Delete.miss"
            /\ UNCHANGED <<lruList, freeList, cache, elem>>
    /\ err' = ErrNil
    /\ ret' = NilValue
    /\ UNCHANGED <<maxAge, capacity, intBits, now>>

(***************************************************************************)
(* Storage.gc: the expiry loop, then the capacity trim.                    *)
(***************************************************************************)
RECURSIVE gcExpire(_, _)
gcExpire(st, timenow) ==
    LET e == Back(st.lru) IN
    IF e # NilElem /\ timenow > st.elem[e].Expiration
    THEN gcExpire([lru   |-> Remove(st.lru, e),
                   free  |-> PushFront(st.free, e),
                   cache |-> MapDelete(st.cache, st.elem[e].Key),
                   elem  |-> [st.elem EXCEPT ![e].Key = "",
                                             ![e].Value = NilValue]],
                  timenow)
    ELSE st

RECURSIVE gcTrim(_, _)
gcTrim(st, shouldRemoveNum) ==
    IF shouldRemoveNum > 0
    THEN gcTrim([st EXCEPT !.free = RemoveFront(st.free),
                           !.elem = IF st.free = <<>> THEN st.elem
                                    ELSE [st.elem EXCEPT ![Front(st.free)] = ZeroElem]],
                shouldRemoveNum - 1)
    ELSE st

(***************************************************************************)
(* The expiry loop of Storage.gc with the test written                     *)
(* timenow >= e.Expiration.                                                *)
(***************************************************************************)
RECURSIVE gcExpireEarly(_, _)
gcExpireEarly(st, timenow) ==
    LET e == Back(st.lru) IN
    IF e # NilElem /\ timenow >= st.elem[e].Expiration
    THEN gcExpireEarly([lru   |-> Remove(st.lru, e),
                        free  |-> PushFront(st.free, e),
                        cache |-> MapDelete(st.cache, st.elem[e].Key),
                        elem  |-> [st.elem EXCEPT ![e].Key = "",
                                                  ![e].Value = NilValue]],
                       timenow)
    ELSE st

gcSweepsEarly ==
    LET timenow  == now
        swept    == gcExpireEarly([lru |-> lruList, free |-> freeList,
                                   cache |-> cache, elem |-> elem], timenow)
        totalLen == Len(swept.lru) + Len(swept.free)
        final    == IF totalLen > capacity
                       /\ Len(swept.lru) < (capacity - capacity \div 5)
                    THEN gcTrim(swept, totalLen - capacity)
                    ELSE swept
    IN  /\ path' = IF totalLen > capacity
                      /\ Len(swept.lru) < (capacity - capacity \div 5)
                   THEN "gc.trim" ELSE "gc"
        /\ lruList' = final.lru
        /\ freeList' = final.free
        /\ cache' = final.cache
        /\ elem' = final.elem
        /\ err' = ErrNil
        /\ ret' = NilValue
        /\ UNCHANGED <<maxAge, capacity, intBits, now>>

gcBody(timenow) ==
    LET swept    == gcExpire([lru |-> lruList, free |-> freeList,
                              cache |-> cache, elem |-> elem], timenow)
        totalLen == Len(swept.lru) + Len(swept.free)
        final    == IF totalLen > capacity
                       /\ Len(swept.lru) < (capacity - capacity \div 5)
                    THEN gcTrim(swept, totalLen - capacity)
                    ELSE swept
    IN  /\ path' = IF totalLen > capacity
                      /\ Len(swept.lru) < (capacity - capacity \div 5)
                   THEN "gc.trim" ELSE "gc"
        /\ lruList' = final.lru
        /\ freeList' = final.free
        /\ cache' = final.cache
        /\ elem' = final.elem
        /\ err' = ErrNil
        /\ ret' = NilValue
        /\ UNCHANGED <<maxAge, capacity, intBits, now>>

(***************************************************************************)
(* Storage.gc with an expiry phase that removes one expired node at most.  *)
(***************************************************************************)
gcSweepsOne ==
    LET timenow  == now
        st       == [lru |-> lruList, free |-> freeList,
                     cache |-> cache, elem |-> elem]
        e        == Back(lruList)
        swept    == IF e # NilElem /\ timenow > elem[e].Expiration
                    THEN [lru   |-> Remove(lruList, e),
                          free  |-> PushFront(freeList, e),
                          cache |-> MapDelete(cache, elem[e].Key),
                          elem  |-> [elem EXCEPT ![e].Key = "",
                                                 ![e].Value = NilValue]]
                    ELSE st
        totalLen == Len(swept.lru) + Len(swept.free)
        final    == IF totalLen > capacity
                       /\ Len(swept.lru) < (capacity - capacity \div 5)
                    THEN gcTrim(swept, totalLen - capacity)
                    ELSE swept
    IN  /\ path' = IF totalLen > capacity
                      /\ Len(swept.lru) < (capacity - capacity \div 5)
                   THEN "gc.trim" ELSE "gc"
        /\ lruList' = final.lru
        /\ freeList' = final.free
        /\ cache' = final.cache
        /\ elem' = final.elem
        /\ err' = ErrNil
        /\ ret' = NilValue
        /\ UNCHANGED <<maxAge, capacity, intBits, now>>

(***************************************************************************)
(* Storage.gc trimming whenever the lists hold more than capacity nodes,   *)
(* whatever the length of the live list.                                   *)
(***************************************************************************)
gcTrimsWhenOversized ==
    LET timenow  == now
        swept    == gcExpire([lru |-> lruList, free |-> freeList,
                              cache |-> cache, elem |-> elem], timenow)
        totalLen == Len(swept.lru) + Len(swept.free)
        final    == IF totalLen > capacity
                    THEN gcTrim(swept, totalLen - capacity)
                    ELSE swept
    IN  /\ path' = IF totalLen > capacity THEN "gc.trim" ELSE "gc"
        /\ lruList' = final.lru
        /\ freeList' = final.free
        /\ cache' = final.cache
        /\ elem' = final.elem
        /\ err' = ErrNil
        /\ ret' = NilValue
        /\ UNCHANGED <<maxAge, capacity, intBits, now>>

(***************************************************************************)
(* Storage.gc with a trim that empties freeList.                           *)
(***************************************************************************)
gcTrimsWholeFreeList ==
    LET timenow  == now
        swept    == gcExpire([lru |-> lruList, free |-> freeList,
                              cache |-> cache, elem |-> elem], timenow)
        totalLen == Len(swept.lru) + Len(swept.free)
        final    == IF totalLen > capacity
                       /\ Len(swept.lru) < (capacity - capacity \div 5)
                    THEN gcTrim(swept, Len(swept.free))
                    ELSE swept
    IN  /\ path' = IF totalLen > capacity
                      /\ Len(swept.lru) < (capacity - capacity \div 5)
                   THEN "gc.trim" ELSE "gc"
        /\ lruList' = final.lru
        /\ freeList' = final.free
        /\ cache' = final.cache
        /\ elem' = final.elem
        /\ err' = ErrNil
        /\ ret' = NilValue
        /\ UNCHANGED <<maxAge, capacity, intBits, now>>

(***************************************************************************)
(* Storage.gc: lock, clock reading and body in one step.                   *)
(***************************************************************************)
gc == gcBody(now)

(***************************************************************************)
(* Storage.SetCapacity                                                     *)
(***************************************************************************)
SetCapacity(n) ==
    /\ path' = "SetCapacity"
    /\ capacity' = IF n > 0 THEN n ELSE capacity
    /\ err' = ErrNil
    /\ ret' = NilValue
    /\ UNCHANGED <<lruList, freeList, cache, elem, maxAge, intBits, now>>

(***************************************************************************)
(* The wall clock in seconds.                                              *)
(***************************************************************************)
Tick ==
    /\ now < MaxTime
    /\ now' = now + 1
    /\ UNCHANGED <<lruList, freeList, cache, elem, maxAge, capacity, intBits, path, err, ret>>

(***************************************************************************)
(* New(maxAge, capacity, gcInterval): capacity zero Elements are pushed    *)
(* onto the front of freeList one after the other.                         *)
(***************************************************************************)
New(_maxAge, _capacity) ==
    /\ lruList = <<>>
    /\ freeList = [i \in 1 .. _capacity |-> _capacity + 1 - i]
    /\ cache = <<>>
    /\ elem = [e \in NodeIds |-> ZeroElem]
    /\ maxAge = _maxAge
    /\ capacity = _capacity

\* the goroutines: the callers, and the gc service New starts
Callers   == {"c1", "c2"}
Reclaimer == "gc service"
Procs     == Callers \cup {Reclaimer}

NoCall == [op |-> "none"]

\* time.Minute, in minutes: the least gcInterval New and SetGCInterval take
Minute == 1

\* New builds the Storage without the field gcIntervalResetChan, and no
\* statement assigns it: the channel is nil for the life of the Storage
NilChan == "nil channel"
gcIntervalResetChan == NilChan

\* the goroutines are not followed: every handler runs as one step
Atomic == <<>>

\* no caller is in a method; the gc service New started waits in its select
Started(gcInterval) ==
    /\ mu = "free"
    /\ pc = [p \in Procs |-> IF p = Reclaimer THEN "select" ELSE "idle"]
    /\ frame = [p \in Procs |->
                  IF p = Reclaimer
                  THEN [gc_interval |-> gcInterval, timenow |-> 0]
                  ELSE NoCall]

InitStore ==
    /\ intBits \in IntWidths
    /\ \E c \in 1 .. MaxCapacity : c <= MaxInt /\ New(MaxAge, c)
    /\ now = 0
    /\ path = "New"
    /\ err = ErrNil
    /\ ret = NilValue

Init ==
    /\ InitStore
    /\ mu = "free"
    /\ pc = Atomic
    /\ frame = Atomic

(***************************************************************************)
(* The handlers run one at a time, each as one step.                       *)
(***************************************************************************)
Next ==
    /\ \/ \E k \in Keys, v \in Values : Add(k, v)
       \/ \E k \in Keys, v \in Values : Set(k, v)
       \/ \E k \in Keys : Get(k)
       \/ \E k \in Keys : Delete(k)
       \/ gc
       \/ \E n \in 0 .. MaxCapacity : n <= MaxInt /\ SetCapacity(n)
       \/ Tick
    /\ UNCHANGED procVars

Spec == Init /\ [][Next]_vars

(***************************************************************************)
(* The goroutines step by step.  A method is entered at s.mu.Lock(), reads *)
(* the clock, runs its body and returns through the deferred Unlock; the   *)
(* clock can tick between any two of these steps.                          *)
(***************************************************************************)
MaxGCInterval == 2   \* SetGCInterval is called with 0..MaxGCInterval minutes

\* the calls the callers make in the step-by-step specifications
ConcKeys   == {"a", "b"}
ConcValues == {"v1"}
ConcCalls ==
    {[op |-> o, key |-> k, value |-> v, timenow |-> 0] :
        o \in {"Add", "Set"}, k \in ConcKeys, v \in ConcValues}
    \cup {[op |-> "Get", key |-> k, timenow |-> 0] : k \in ConcKeys}
    \cup {[op |-> "Delete", key |-> k] : k \in ConcKeys}
    \cup {[op |-> "SetCapacity", n |-> n] : n \in 1 .. MaxCapacity}

ReadsClock(c) == c.op \in {"Add", "Set", "Get"}

\* sync.Mutex with every goroutine allowed in at once
LockNotExclusive(p) ==
    mu' = p

\* s.mu.Lock()
Lock(p) ==
    /\ mu = "free"
    /\ mu' = p

\* s.mu.Unlock()
Unlock(p) ==
    mu' = "free"

\* a caller enters Add, Set, Get, Delete or SetCapacity and takes the lock
Enter(p, c) ==
    /\ pc[p] = "idle"
    /\ Lock(p)
    /\ pc' = [pc EXCEPT ![p] = "locked"]
    /\ frame' = [frame EXCEPT ![p] = c]
    /\ UNCHANGED storeVars

\* timenow := time.Now().Unix(), inside the critical section
ReadClock(p) ==
    /\ \/ p \in Callers /\ pc[p] = "locked" /\ ReadsClock(frame[p])
          /\ pc' = [pc EXCEPT ![p] = "clock"]
       \/ p = Reclaimer /\ pc[p] = "tick.locked"
          /\ pc' = [pc EXCEPT ![p] = "tick.clock"]
       \/ p = Reclaimer /\ pc[p] = "reset.locked"
          /\ pc' = [pc EXCEPT ![p] = "reset.clock"]
    /\ frame' = [frame EXCEPT ![p].timenow = now]
    /\ UNCHANGED <<storeVars, mu>>

\* the body of the method the caller is in, and its return
Return(p) ==
    /\ p \in Callers
    /\ LET c == frame[p] IN
       \/ /\ pc[p] = "clock"
          /\ \/ c.op = "Add" /\ AddBody(c.key, c.value, c.timenow)
             \/ c.op = "Set" /\ SetBody(c.key, c.value, c.timenow)
             \/ c.op = "Get" /\ GetBody(c.key, c.timenow)
       \/ /\ pc[p] = "locked"
          /\ \/ c.op = "Delete" /\ Delete(c.key)
             \/ c.op = "SetCapacity" /\ SetCapacity(c.n)
    /\ Unlock(p)
    /\ pc' = [pc EXCEPT ![p] = "idle"]
    /\ frame' = [frame EXCEPT ![p] = NoCall]

(***************************************************************************)
(* Storage.SetGCInterval: a send on s.gcIntervalResetChan when gcInterval  *)
(* is a minute or more, nothing otherwise.  The caller stays at the send   *)
(* until the gc service receives.  at is the time of the call.             *)
(***************************************************************************)
SetGCInterval(p, gcInterval) ==
    /\ pc[p] = "idle"
    /\ IF gcInterval >= Minute
       THEN /\ pc' = [pc EXCEPT ![p] = "send"]
            /\ frame' = [frame EXCEPT ![p] = [op |-> "SetGCInterval",
                                              gcInterval |-> gcInterval,
                                              at |-> now]]
       ELSE /\ pc' = pc
            /\ frame' = [frame EXCEPT ![p] = NoCall]
    /\ UNCHANGED <<storeVars, mu>>

\* the callers blocked in a send on a channel that is not nil
Senders ==
    IF gcIntervalResetChan = NilChan THEN {}
    ELSE {p \in Callers : pc[p] = "send"}

(***************************************************************************)
(* The select of the gc service: one of the cases that are ready.  The     *)
(* ticker case is ready whenever the interval has passed; the receive is   *)
(* ready when a caller is sending.  After a receive the service stops the  *)
(* ticker, calls s.gc() and leaves the loop labelled NEW_GC_INTERVAL.      *)
(***************************************************************************)
gcSelect ==
    /\ pc[Reclaimer] = "select"
    /\ \/ /\ pc' = [pc EXCEPT ![Reclaimer] = "tick.gc"]
          /\ UNCHANGED frame
       \/ \E p \in Senders :
             /\ frame' = [frame EXCEPT ![Reclaimer].gc_interval =
                                          frame[p].gcInterval]
             /\ pc' = [pc EXCEPT ![Reclaimer] = "reset.gc", ![p] = "idle"]
    /\ UNCHANGED <<storeVars, mu>>

\* s.gc() takes the lock
gcEnter ==
    /\ pc[Reclaimer] \in {"tick.gc", "reset.gc"}
    /\ Lock(Reclaimer)
    /\ pc' = [pc EXCEPT ![Reclaimer] =
                 IF pc[Reclaimer] = "tick.gc" THEN "tick.locked"
                                             ELSE "reset.locked"]
    /\ UNCHANGED <<storeVars, frame>>

\* the body of s.gc() and its return: back to the select after a tick, out
\* of the loop, and so out of the goroutine, after a reset
gcReturn ==
    /\ pc[Reclaimer] \in {"tick.clock", "reset.clock"}
    /\ gcBody(frame[Reclaimer].timenow)
    /\ Unlock(Reclaimer)
    /\ pc' = [pc EXCEPT ![Reclaimer] =
                 IF pc[Reclaimer] = "tick.clock" THEN "select" ELSE "done"]
    /\ frame' = [frame EXCEPT ![Reclaimer].timenow = 0]

\* a caller goes on in Add, Set, Get, Delete or SetCapacity, or enters one
CallerStep(p, calls) ==
    \/ \E c \in calls : Enter(p, c)
    \/ ReadClock(p)
    \/ Return(p)

ReclaimerStep ==
    \/ gcSelect
    \/ gcEnter
    \/ ReadClock(Reclaimer)
    \/ gcReturn

ConcInit ==
    /\ InitStore
    /\ intBits = CHOOSE w \in IntWidths : \A x \in IntWidths : x <= w
    /\ Started(Minute)

ConcNext ==
    \/ \E p \in Callers : CallerStep(p, ConcCalls)
    \/ ReclaimerStep
    \/ Tick /\ UNCHANGED procVars

ConcSpec == ConcInit /\ [][ConcNext]_vars

(***************************************************************************)
(* The goroutines with callers that reconfigure the gc interval: they call *)
(* SetGCInterval, and Add and Get of one key.                              *)
(***************************************************************************)
GCCalls == {c \in ConcCalls : c.op \in {"Add", "Get"} /\ c.key = "a"}

GCCallerStep(p) ==
    \/ CallerStep(p, GCCalls)
    \/ \E d \in 0 .. MaxGCInterval : SetGCInterval(p, d)

GCNext ==
    \/ \E p \in Callers : GCCallerStep(p)
    \/ ReclaimerStep
    \/ Tick /\ UNCHANGED procVars

GCSpec == ConcInit /\ [][GCNext]_vars

\* the Go scheduler: every goroutine that can take a step eventually takes
\* one; and sync.Mutex hands the lock to a goroutine that has waited for it
\* (its starvation mode), so the gc service is not locked out for ever
FairGCSpec ==
    /\ GCSpec
    /\ \A p \in Callers : WF_vars(GCCallerStep(p))
    /\ WF_vars(ReclaimerStep)
    /\ SF_vars(gcEnter)

(***************************************************************************)
(* The call of New.  Before it there is no Storage: the variables hold     *)
(* zero values and no goroutine runs.  New panics on the first argument it *)
(* finds out of range and then nothing is built and no goroutine starts;   *)
(* otherwise it builds the Storage and starts the gc service.              *)
(***************************************************************************)
maxAgeLimit == 1893417120   \* 60 * 60 * 24 * 365.2425 * 60 seconds

\* the arguments New is called with
NewMaxAges     == {-1, 0, MaxAge, maxAgeLimit, maxAgeLimit + 1}
NewCapacities  == -1 .. MaxCapacity
NewGCIntervals == 0 .. MaxGCInterval

NoStorage == "no Storage"

PanicMaxAgeLow   == "panic: session.New: maxAge must be > 0"
PanicMaxAgeHigh  == "panic: session.New: maxAge must be <= maxAgeLimit"
PanicCapacity    == "panic: session.New: capacity must be > 0"
PanicGCInterval  == "panic: session.New: gcInterval must be >= time.Minute"
Panics == {PanicMaxAgeLow, PanicMaxAgeHigh, PanicCapacity, PanicGCInterval}

\* New without the test of capacity
NewAcceptsAnyCapacity(_maxAge, _capacity, gcInterval) ==
    /\ path = NoStorage
    /\ IF _maxAge <= 0
       THEN /\ path' = PanicMaxAgeLow
            /\ UNCHANGED <<lruList, freeList, cache, elem, maxAge, capacity, procVars>>
       ELSE IF _maxAge > maxAgeLimit
       THEN /\ path' = PanicMaxAgeHigh
            /\ UNCHANGED <<lruList, freeList, cache, elem, maxAge, capacity, procVars>>
       ELSE IF gcInterval < Minute
       THEN /\ path' = PanicGCInterval
            /\ UNCHANGED <<lruList, freeList, cache, elem, maxAge, capacity, procVars>>
       ELSE /\ path' = "New"
            /\ lruList' = <<>>
            /\ freeList' = [i \in 1 .. _capacity |-> _capacity + 1 - i]
            /\ cache' = <<>>
            /\ elem' = [e \in NodeIds |-> ZeroElem]
            /\ maxAge' = _maxAge
            /\ capacity' = _capacity
            /\ mu' = "free"
            /\ pc' = [p \in Procs |->
                         IF p = Reclaimer THEN "select" ELSE "idle"]
            /\ frame' = [p \in Procs |->
                            IF p = Reclaimer
                            THEN [gc_interval |-> gcInterval, timenow |-> 0]
                            ELSE NoCall]
    /\ UNCHANGED <<intBits, now, err, ret>>

\* New(maxAge, capacity, gcInterval)
NewOrPanic(_maxAge, _capacity, gcInterval) ==
    /\ path = NoStorage
    /\ IF _maxAge <= 0
       THEN /\ path' = PanicMaxAgeLow
            /\ UNCHANGED <<lruList, freeList, cache, elem, maxAge, capacity, procVars>>
       ELSE IF _maxAge > maxAgeLimit
       THEN /\ path' = PanicMaxAgeHigh
            /\ UNCHANGED <<lruList, freeList, cache, elem, maxAge, capacity, procVars>>
       ELSE IF _capacity <= 0
       THEN /\ path' = PanicCapacity
            /\ UNCHANGED <<lruList, freeList, cache, elem, maxAge, capacity, procVars>>
       ELSE IF gcInterval < Minute
       THEN /\ path' = PanicGCInterval
            /\ UNCHANGED <<lruList, freeList, cache, elem, maxAge, capacity, procVars>>
       ELSE /\ path' = "New"
            /\ lruList' = <<>>
            /\ freeList' = [i \in 1 .. _capacity |-> _capacity + 1 - i]
            /\ cache' = <<>>
            /\ elem' = [e \in NodeIds |-> ZeroElem]
            /\ maxAge' = _maxAge
            /\ capacity' = _capacity
            /\ mu' = "free"
            /\ pc' = [p \in Procs |->
                         IF p = Reclaimer THEN "select" ELSE "idle"]
            /\ frame' = [p \in Procs |->
                            IF p = Reclaimer
                            THEN [gc_interval |-> gcInterval, timenow |-> 0]
                            ELSE NoCall]
    /\ UNCHANGED <<intBits, now, err, ret>>

\* the program before New is called
NewInit ==
    /\ lruList = <<>>
    /\ freeList = <<>>
    /\ cache = <<>>
    /\ elem = [e \in NodeIds |-> ZeroElem]
    /\ maxAge = 0
    /\ capacity = 0
    /\ intBits = CHOOSE w \in IntWidths : \A x \in IntWidths : x <= w
    /\ now = 0
    /\ path = NoStorage
    /\ err = ErrNil
    /\ ret = NilValue
    /\ mu = "free"
    /\ pc = [p \in Procs |-> NoStorage]
    /\ frame = [p \in Procs |-> NoCall]

\* New is called once; the gc service it starts sweeps at every tick
NewNext ==
    \/ \E a \in NewMaxAges, c \in NewCapacities, g \in NewGCIntervals :
          c <= MaxInt /\ NewOrPanic(a, c, g)
    \/ ReclaimerStep
    \/ Tick /\ UNCHANGED procVars

NewSpec == NewInit /\ [][NewNext]_vars

(***************************************************************************)
(* Notions the properties below are stated in.                             *)
(***************************************************************************)
\* the branches of each handler, as path records them
AddPaths    == {"Add.hit.expired", "Add.hit.fresh", "Add.miss"}
SetPaths    == {"Set.hit", "Set.miss"}
GetPaths    == {"Get.hit.expired", "Get.hit.fresh", "Get.miss"}
DeletePaths == {"Delete.hit", "Delete.miss"}
gcPaths     == {"gc", "gc.trim"}

\* the entry of key k is expired at the clock reading the next handler takes
Expired(k) == now > elem[cache[k]].Expiration

\* the free list as the handlers can see it: its nodes and their fields
FreeNodes == [i \in 1 .. Len(freeList) |-> <<freeList[i], elem[freeList[i]]>>]

\* the live list as the handlers can see it: its nodes and their fields
LiveNodes == [i \in 1 .. Len(lruList) |-> <<lruList[i], elem[lruList[i]]>>]

(***************************************************************************)
(* C1: in every reachable state the Index and the live list agree: the     *)
(* number of Index keys is the live-list length, and for every node n of   *)
(* the live list Index[n.key] is that node n.                              *)
(***************************************************************************)
IndexAgreesWithLiveList ==
    /\ Cardinality(DOMAIN cache) = Len(lruList)
    /\ \A i \in 1 .. Len(lruList) :
          LET n == lruList[i]
          IN  hit(elem[n].Key) /\ cache[elem[n].Key] = n

\* an admission after the first entries have expired, with two live entries
IndexAgreesWitness ==
    /\ path = "Add.miss" /\ err = ErrNil
    /\ now >= 2
    /\ Len(lruList) >= 2

(***************************************************************************)
(* C2: the engine behaves like an abstract map from key to (value,         *)
(* expiration).  AbsMap is the map a caller can observe: the entries whose *)
(* expiration the clock has not passed.  Successful Add/Set of k put       *)
(* (v, now + maxAge) under k, a successful Get slides the expiration,      *)
(* Delete takes k out, time passing takes out what expires, and nothing    *)
(* else changes the map; Get(k) returns the value the map holds under k    *)
(* when it holds one and ErrNotFound in every other case.                  *)
(***************************************************************************)
NoEntry == <<>>

\* what the abstract map holds under k: <<value, expiration>>, or NoEntry
AbsMap(k) ==
    IF k \in DOMAIN cache
    THEN LET e == elem[cache[k]]
         IN  IF now <= e.Expiration THEN <<e.Value, e.Expiration>> ELSE NoEntry
    ELSE NoEntry

\* the abstract map after the step is the one before it
AbsSame == \A x \in Keys : AbsMap(x)' = AbsMap(x)

\* the abstract map after the step is the one before it with (v, now + maxAge)
\* put under k
AbsPut(k, v) ==
    \A x \in Keys :
        AbsMap(x)' = IF x = k THEN <<v, now + maxAge>> ELSE AbsMap(x)

\* the abstract map after the step is the one before it without k
AbsDelete(k) ==
    \A x \in Keys : AbsMap(x)' = IF x = k THEN NoEntry ELSE AbsMap(x)

\* the abstract map after the step is the one before it without the entries
\* that expire before the new clock reading
AbsAged ==
    \A x \in Keys :
        AbsMap(x)' = IF AbsMap(x) # NoEntry /\ now' <= AbsMap(x)[2]
                     THEN AbsMap(x) ELSE NoEntry

BehavesLikeAbstractMap ==
    [][/\ path' \in GetPaths => \A k \in Keys :
             Get(k) => IF AbsMap(k) # NoEntry
                       THEN /\ err' = ErrNil
                            /\ ret' = AbsMap(k)[1]
                            /\ AbsPut(k, AbsMap(k)[1])
                       ELSE /\ err' = ErrNotFound
                            /\ ret' = NilValue
                            /\ AbsSame
       /\ path' \in AddPaths => \A k \in Keys, v \in Values :
             Add(k, v) => IF err' = ErrNil THEN AbsPut(k, v) ELSE AbsSame
       /\ path' \in SetPaths => \A k \in Keys, v \in Values :
             Set(k, v) => IF err' = ErrNil THEN AbsPut(k, v) ELSE AbsSame
       /\ path' \in DeletePaths => \A k \in Keys :
             Delete(k) => AbsDelete(k)
       /\ path' \in gcPaths => (gc => AbsSame)
       /\ capacity' # capacity => AbsSame
       /\ now' # now => AbsAged]_vars

\* Get has just returned a stored value after other entries have expired
AbstractMapWitness ==
    /\ path = "Get.hit.fresh" /\ err = ErrNil /\ ret # NilValue
    /\ now >= 2
    /\ Len(freeList) >= 1

(***************************************************************************)
(* C3: Add(k, v) on a key that is present and not expired fails with       *)
(* ErrNotStored and changes nothing: value, expiration, live-list order,   *)
(* Index and free list are as before.                                      *)
(***************************************************************************)
AddOnFreshKeyIsRejected ==
    [][path' \in AddPaths => \A k \in Keys, v \in Values :
          (hit(k) /\ ~Expired(k) /\ Add(k, v))
          => /\ err' = ErrNotStored
             /\ LiveNodes' = LiveNodes
             /\ FreeNodes' = FreeNodes
             /\ cache' = cache]_vars

\* Add has just been rejected at the very second the entry expires at
AddOnFreshKeyWitness ==
    /\ path = "Add.hit.fresh" /\ err = ErrNotStored
    /\ \E k \in DOMAIN cache : elem[cache[k]].Expiration = now

(***************************************************************************)
(* C4: Add(k, v) on a key that is in the Index but expired succeeds: the   *)
(* same node keeps key k, gets value v and expiration now + maxAge and is  *)
(* at the front of the live list; the live-list length, the Index keys and *)
(* the free list are unchanged.                                            *)
(***************************************************************************)
AddOnExpiredKeySlides ==
    [][path' \in AddPaths => \A k \in Keys, v \in Values :
          (hit(k) /\ Expired(k) /\ Add(k, v))
          => /\ err' = ErrNil
             /\ cache' = cache
             /\ elem'[cache[k]] = [Key |-> k, Value |-> v,
                                   Expiration |-> now + maxAge]
             /\ Front(lruList') = cache[k]
             /\ Len(lruList') = Len(lruList)
             /\ FreeNodes' = FreeNodes]_vars

\* Add has just revived an expired entry that was not at the front
AddOnExpiredKeyWitness ==
    /\ path = "Add.hit.expired" /\ err = ErrNil
    /\ Len(lruList) >= 2
    /\ elem[Back(lruList)].Expiration < now

(***************************************************************************)
(* C5 as stated: Set(k, v) succeeds whether k is absent, present and       *)
(* fresh, or present and expired, and afterwards k is in the Index, its    *)
(* node is at the front of the live list, holds v and expires at           *)
(* now + maxAge.                                                           *)
(***************************************************************************)
SetStored(k, v) ==
    /\ err' = ErrNil
    /\ k \in DOMAIN cache'
    /\ Front(lruList') = cache'[k]
    /\ elem'[cache'[k]] = [Key |-> k, Value |-> v, Expiration |-> now + maxAge]

SetAlwaysSucceeds ==
    [][path' \in SetPaths => \A k \in Keys, v \in Values :
          Set(k, v) => SetStored(k, v)]_vars

(***************************************************************************)
(* C5 as amended: Set(k, v) is an upsert that is refused in one case only: *)
(* k is absent, the free list is empty, the back of the live list is not   *)
(* expired and the live-list length is the largest int.  Then Set returns  *)
(* ErrNotStored and changes nothing.  In every other case it succeeds and  *)
(* afterwards k is in the Index, its node is at the front of the live      *)
(* list, holds v and expires at now + maxAge.                              *)
(***************************************************************************)
AdmissionRefused(k) ==
    /\ ~hit(k)
    /\ Len(freeList) = 0
    /\ Len(lruList) = MaxInt
    /\ now <= elem[Back(lruList)].Expiration

SetIsUpsertUnlessRefused ==
    [][path' \in SetPaths => \A k \in Keys, v \in Values :
          Set(k, v) => IF AdmissionRefused(k)
                       THEN /\ err' = ErrNotStored
                            /\ LiveNodes' = LiveNodes
                            /\ FreeNodes' = FreeNodes
                            /\ cache' = cache
                       ELSE SetStored(k, v)]_vars

\* Set has just overwritten an entry while the back of the live list is expired
SetIsUpsertWitness ==
    /\ path = "Set.hit" /\ err = ErrNil
    /\ Len(lruList) >= 2
    /\ elem[Back(lruList)].Expiration < now
    /\ elem[Front(lruList)].Expiration = now + maxAge

(***************************************************************************)
(* C6: Get(k) on a key that is present but expired returns ErrNotFound and *)
(* removes the entry in the same step: k is no longer in the Index and the *)
(* live list is one shorter, no sweep having run.                          *)
(***************************************************************************)
GetOnExpiredKeyRemoves ==
    [][path' \in GetPaths => \A k \in Keys :
          (hit(k) /\ Expired(k) /\ Get(k))
          => /\ err' = ErrNotFound
             /\ ret' = NilValue
             /\ k \notin DOMAIN cache'
             /\ cache[k] \notin Range(lruList')
             /\ Len(lruList') = Len(lruList) - 1]_vars

\* Get has just found an expired entry and another entry is still live
GetOnExpiredKeyWitness ==
    /\ path = "Get.hit.expired" /\ err = ErrNotFound
    /\ Len(lruList) >= 1

(***************************************************************************)
(* C7: sliding TTL.  Every successful touch of k (Add, Set, Get) sets its  *)
(* expiration to now + maxAge, and an entry the clock has not passed its   *)
(* expiration of is left in the Index, on the same node, by every step     *)
(* that is not a Delete of its key: Get reports it found, no admission     *)
(* recycles it and no sweep removes it.  So an entry touched at intervals  *)
(* of at most maxAge stays until it is deleted.                            *)
(***************************************************************************)
SlidingTTL ==
    [][\A k \in DOMAIN cache :
          now' <= elem[cache[k]].Expiration
          => \/ path' = "Delete.hit" /\ Delete(k)
             \/ /\ k \in DOMAIN cache'
                /\ cache'[k] = cache[k]
                /\ elem'[cache[k]].Key = k
                /\ elem'[cache[k]].Expiration >= elem[cache[k]].Expiration
                /\ (path' \in GetPaths /\ Get(k))
                   => /\ err' = ErrNil
                      /\ elem'[cache[k]].Expiration = now + maxAge
                /\ (path' \in SetPaths /\ \E v \in Values : Set(k, v))
                   => elem'[cache[k]].Expiration = now + maxAge]_vars

\* Get has just found an entry at a time by which an untouched entry expired
SlidingTTLWitness ==
    /\ path = "Get.hit.fresh" /\ err = ErrNil
    /\ now >= 2
    /\ Len(lruList) >= 2
    /\ elem[Back(lruList)].Expiration < now

(***************************************************************************)
(* C8: Delete(k) on a key that is not in the Index returns ErrNotFound and *)
(* leaves the Index, the live list and the free list unchanged.            *)
(***************************************************************************)
DeleteOfAbsentKeyReportsNotFound ==
    [][path' \in DeletePaths => \A k \in Keys :
          (~hit(k) /\ Delete(k))
          => /\ err' = ErrNotFound
             /\ LiveNodes' = LiveNodes
             /\ FreeNodes' = FreeNodes
             /\ cache' = cache]_vars

DeleteOfExpiredKeyReportsNotFound ==
    [][path' \in DeletePaths => \A k \in Keys :
          (hit(k) /\ Expired(k) /\ Delete(k))
          => /\ err' = ErrNotFound
             /\ cache[k] \notin Range(lruList')]_vars

(***************************************************************************)
(* C11: the live list read front to back lists the keys most recently      *)
(* touched first.  A successful Add, Set or Get of k leaves k at the front *)
(* followed by the other keys in the order they had; a failed Add or Get   *)
(* leaves the keys that stay in the order they had; the only keys these    *)
(* handlers drop are expired ones.                                         *)
(***************************************************************************)
LiveKeys == [i \in 1 .. Len(lruList) |-> elem[lruList[i]].Key]

TouchPaths == AddPaths \cup SetPaths \cup GetPaths

MostRecentTouchFirst ==
    [][path' \in TouchPaths =>
          LET stay(k)    == SelectSeq(LiveKeys,
                                      LAMBDA x : x # k /\ x \in DOMAIN cache')
              touched(k) == IF err' = ErrNil
                            THEN LiveKeys' = <<k>> \o stay(k)
                            ELSE LiveKeys' = SelectSeq(LiveKeys,
                                                LAMBDA x : x \in DOMAIN cache')
          IN  /\ \A x \in (DOMAIN cache) \ (DOMAIN cache') : Expired(x)
              /\ path' \in AddPaths => \A k \in Keys :
                    (\E v \in Values : Add(k, v)) => touched(k)
              /\ path' \in SetPaths => \A k \in Keys :
                    (\E v \in Values : Set(k, v)) => touched(k)
              /\ path' \in GetPaths => \A k \in Keys :
                    Get(k) => touched(k)]_vars

\* Get has just brought a key to the front of three live entries
MostRecentTouchWitness ==
    /\ path = "Get.hit.fresh" /\ err = ErrNil
    /\ Len(lruList) = 3
    /\ elem[lruList[2]].Expiration < elem[lruList[1]].Expiration

(***************************************************************************)
(* C12: with a non-decreasing clock the expirations in the live list are   *)
(* non-increasing from front to back, so the expired entries are a         *)
(* contiguous run at the back: no expired entry is in front of one that is *)
(* not expired.                                                            *)
(***************************************************************************)
ExpirationsNonIncreasing ==
    /\ \A i \in 1 .. Len(lruList) - 1 :
          elem[lruList[i]].Expiration >= elem[lruList[i + 1]].Expiration
    /\ \A i, j \in 1 .. Len(lruList) :
          (i < j /\ now > elem[lruList[i]].Expiration)
          => now > elem[lruList[j]].Expiration

\* three live entries of three different ages: the back one expired, the
\* front one not
ExpirationsWitness ==
    /\ Len(lruList) = 3
    /\ now > elem[lruList[3]].Expiration
    /\ now <= elem[lruList[1]].Expiration
    /\ elem[lruList[3]].Expiration < elem[lruList[2]].Expiration
    /\ elem[lruList[2]].Expiration < elem[lruList[1]].Expiration

(***************************************************************************)
(* C14: right after a sweep no entry of the live list is expired at the    *)
(* sweep's clock reading, the entries that were not expired at that        *)
(* reading are all still in the live list, on the same nodes and in the    *)
(* same order, and the Index holds exactly their keys.                     *)
(***************************************************************************)
SweepRemovesExactlyTheExpired ==
    [][path' \in gcPaths =>
          (gc => /\ \A i \in 1 .. Len(lruList') :
                      now <= elem'[lruList'[i]].Expiration
                 /\ LiveNodes' = SelectSeq(LiveNodes,
                                     LAMBDA n : now <= n[2].Expiration)
                 /\ DOMAIN cache' = {elem'[n].Key : n \in Range(lruList')}
                 /\ \A k \in DOMAIN cache' : cache'[k] = cache[k])]_vars

\* a sweep has just left a fresh entry and put an expired one on the free list
SweepWitness ==
    /\ path = "gc"
    /\ Len(lruList) >= 1
    /\ \E i \in 1 .. Len(freeList) :
          /\ elem[freeList[i]].Expiration > 0
          /\ elem[freeList[i]].Expiration < now

(***************************************************************************)
(* C15: capacity trim in a sweep.  With live the live-list length after    *)
(* the expiry phase and total the number of nodes in both lists: if        *)
(* total > capacity and live < capacity - capacity/5 the sweep discards    *)
(* free-list nodes until total is capacity exactly, and the free list      *)
(* holds a node every time one is to be discarded; otherwise the sweep     *)
(* discards nothing.                                                       *)
(***************************************************************************)
CapacityTrim ==
    [][path' \in gcPaths =>
          (gc => LET total == Len(lruList) + Len(freeList)
                     live  == Len(lruList')
                     free  == total - live
                 IN  IF total > capacity /\ live < capacity - capacity \div 5
                     THEN /\ Len(lruList') + Len(freeList') = capacity
                          /\ total - capacity <= free
                          /\ Range(lruList') \subseteq Range(lruList)
                     ELSE /\ Len(lruList') + Len(freeList') = total
                          /\ Range(lruList') \cup Range(freeList')
                                = Range(lruList) \cup Range(freeList))]_vars

\* a sweep has just trimmed the lists down to capacity with an entry live
CapacityTrimWitness ==
    /\ path = "gc.trim"
    /\ Len(lruList) >= 1
    /\ Len(lruList) + Len(freeList) = capacity

(***************************************************************************)
(* C16: jitter guard.  No step discards a node while the live list holds   *)
(* capacity - capacity/5 entries or more: a Delete or an expired Get run   *)
(* with that many live entries, and a sweep whose expiry phase ends with   *)
(* that many, leave the number of nodes in both lists as it was, however   *)
(* far above capacity it is.                                               *)
(***************************************************************************)
JitterGuard ==
    [][LET total     == Len(lruList) + Len(freeList)
           total2    == Len(lruList') + Len(freeList')
           threshold == capacity - capacity \div 5
       IN  /\ total2 < total => Len(lruList') < threshold
           /\ (path' \in {"Delete.hit", "Get.hit.expired"}
               /\ Len(lruList) >= threshold) => total2 = total
           /\ (path' \in gcPaths
               /\ Len(lruList') >= threshold) => total2 = total]_vars

\* Delete has just kept the node of an entry with the lists above capacity
JitterGuardWitness ==
    /\ path = "Delete.hit"
    /\ Len(lruList) + Len(freeList) > capacity
    /\ Len(lruList) + 1 >= capacity - capacity \div 5
    /\ Len(freeList) >= 1

(***************************************************************************)
(* C17: in every reachable state, also after SetCapacity, the lists hold   *)
(* at least capacity nodes.                                                *)
(***************************************************************************)
RetainedAtLeastCapacity ==
    Len(lruList) + Len(freeList) >= capacity

(***************************************************************************)
(* C18: the engine is capacity-elastic.  Add or Set of an absent key is    *)
(* refused with ErrNotStored exactly when the free list is empty, the back *)
(* of the live list is not expired and the live-list length is the largest *)
(* int, 2^(w-1) - 1; in every other state, whatever the capacity, the key  *)
(* is admitted.                                                            *)
(***************************************************************************)
AdmissionIsElastic ==
    [][path' \in {"Add.miss", "Set.miss"} => \A k \in Keys :
          (~hit(k) /\ \E v \in Values : Add(k, v) \/ Set(k, v))
          => /\ err' = ErrNotStored <=> AdmissionRefused(k)
             /\ err' = ErrNil <=> ~AdmissionRefused(k)
             /\ err' = ErrNil => k \in DOMAIN cache']_vars

\* a key has just been admitted with more live entries than the capacity
AdmissionIsElasticWitness ==
    /\ path \in {"Add.miss", "Set.miss"} /\ err = ErrNil
    /\ Len(lruList) > capacity
    /\ Len(freeList) = 0
    /\ Len(lruList) < MaxInt

(***************************************************************************)
(* C13: with several callers and the gc service every public operation is  *)
(* atomic.  One goroutine at most is between Lock and Unlock, the clock    *)
(* reading it works with was taken inside the critical section and is not  *)
(* earlier than the reading any earlier operation worked with, so the      *)
(* operations take effect one at a time in lock-acquisition order with a   *)
(* non-decreasing clock; and in no state does a node of the live list have *)
(* a smaller expiration than the node behind it.                           *)
(***************************************************************************)
InCritical(p) ==
    pc[p] \in {"locked", "clock", "tick.locked", "tick.clock",
               "reset.locked", "reset.clock"}

HasRead(p) == pc[p] \in {"clock", "tick.clock", "reset.clock"}

OperationsAreAtomic ==
    /\ \A p, q \in Procs : (InCritical(p) /\ InCritical(q)) => p = q
    /\ \A p \in Procs : InCritical(p) <=> mu = p
    /\ \A p \in Procs : HasRead(p) =>
          /\ frame[p].timenow <= now
          /\ \A i \in 1 .. Len(lruList) :
                elem[lruList[i]].Expiration <= frame[p].timenow + maxAge
    /\ \A i \in 1 .. Len(lruList) : elem[lruList[i]].Expiration <= now + maxAge
    /\ \A i \in 1 .. Len(lruList) - 1 :
          elem[lruList[i]].Expiration >= elem[lruList[i + 1]].Expiration

\* a caller is about to run its body with a clock reading the clock has
\* moved on from, on a live list of entries of different ages
OperationsAreAtomicWitness ==
    /\ \E p \in Callers : pc[p] = "clock" /\ frame[p].timenow < now
    /\ Len(lruList) = 2
    /\ elem[lruList[2]].Expiration < elem[lruList[1]].Expiration

(***************************************************************************)
(* C19: SetGCInterval(d) with d a minute or more does not block for ever:  *)
(* under a fair scheduler the call returns, the gc service having taken    *)
(* over the new interval.                                                  *)
(***************************************************************************)
SetGCIntervalReturns ==
    \A p \in Callers :
        (pc[p] = "send")
        ~> (/\ pc[p] = "idle"
            /\ frame[p].op = "SetGCInterval"
            /\ frame[Reclaimer].gc_interval = frame[p].gcInterval)

(***************************************************************************)
(* C20: a reconfiguration triggers one immediate sweep that is complete    *)
(* when the call returns: SetGCInterval(d) with d a minute or more         *)
(* returns, and when it does the live list holds no entry that was expired *)
(* when the call was made.                                                 *)
(***************************************************************************)
ReconfigurationSweeps ==
    \A p \in Callers :
        (pc[p] = "send")
        ~> (/\ pc[p] = "idle"
            /\ frame[p].op = "SetGCInterval"
            /\ \A i \in 1 .. Len(lruList) :
                  elem[lruList[i]].Expiration >= frame[p].at)

(***************************************************************************)
(* C21: the gc service runs for the whole life of the Storage.  After a    *)
(* call of SetGCInterval(d) with d a minute or more the service comes to   *)
(* work with the interval d and is still in its loop of periodic sweeps;   *)
(* and an entry that has expired is in the end taken out of the live list  *)
(* by a sweep, unless a caller touches its key again.                      *)
(***************************************************************************)
gcLoop == {"select", "tick.gc", "tick.locked", "tick.clock"}

ExpiredEntriesAreSwept ==
    \A k \in ConcKeys :
        (hit(k) /\ now > elem[cache[k]].Expiration)
        ~> (~hit(k) \/ now <= elem[cache[k]].Expiration)

ReclaimerRunsForLifetime ==
    /\ \A p \in Callers :
          (pc[p] = "send")
          ~> (/\ frame[p].op = "SetGCInterval"
              /\ frame[Reclaimer].gc_interval = frame[p].gcInterval
              /\ pc[Reclaimer] \in gcLoop)
    /\ ExpiredEntriesAreSwept

(***************************************************************************)
(* C22: New panics, and builds nothing, when maxAge <= 0, maxAge is above  *)
(* maxAgeLimit, capacity <= 0 or gcInterval is under a minute; otherwise   *)
(* the Storage starts with an empty live list, an empty cache and a free   *)
(* list of exactly capacity zero Elements.                                 *)
(***************************************************************************)
ConstructionFailsFast ==
    [][\A a \in NewMaxAges, c \in NewCapacities, g \in NewGCIntervals :
          NewOrPanic(a, c, g) =>
             IF a <= 0 \/ a > maxAgeLimit \/ c <= 0 \/ g < Minute
             THEN /\ path' \in Panics
                  /\ UNCHANGED <<lruList, freeList, cache, elem, maxAge,
                                 capacity, procVars>>
             ELSE /\ path' = "New"
                  /\ lruList' = <<>>
                  /\ cache' = <<>>
                  /\ Len(freeList') = c
                  /\ Cardinality(Range(freeList')) = c
                  /\ \A e \in Range(freeList') : elem'[e] = ZeroElem
                  /\ capacity' = c
                  /\ maxAge' = a
                  /\ New(a, c)'
                  /\ Started(g)']_vars

\* New has returned a Storage of the greatest capacity and age
ConstructionWitness ==
    /\ path = "New"
    /\ Len(freeList) = MaxCapacity
    /\ maxAge = maxAgeLimit
    /\ lruList = <<>>

(***************************************************************************)
(* C23: in every reachable state every node the Storage retains is in      *)
(* exactly one of lruList and freeList, never in both and never twice in   *)
(* one of them, and no entry of the cache points at a node of freeList.    *)
(***************************************************************************)
NodesInExactlyOneList ==
    /\ Range(lruList) \cap Range(freeList) = {}
    /\ Cardinality(Range(lruList)) = Len(lruList)
    /\ Cardinality(Range(freeList)) = Len(freeList)
    /\ \A k \in DOMAIN cache : cache[k] \notin Range(freeList)

\* a node that was live lies in the free list, beside a live entry, right
\* after a removal or a sweep
NodesInExactlyOneListWitness ==
    /\ path \in {"Delete.hit", "Get.hit.expired", "gc"}
    /\ Len(freeList) >= 1
    /\ elem[Front(freeList)].Expiration > 0
    /\ Len(lruList) >= 1

(***************************************************************************)
(* C24, as claimed: whatever keys and values the callers pass, a node has  *)
(* the key "" and the value nil exactly when it is not a live entry: every *)
(* node of freeList is cleared and no node of lruList has both the key ""  *)
(* and the value nil.                                                      *)
(***************************************************************************)
ClearedExactlyWhenNotLive ==
    /\ \A i \in 1 .. Len(freeList) :
          elem[freeList[i]].Key = "" /\ elem[freeList[i]].Value = NilValue
    /\ \A i \in 1 .. Len(lruList) :
          ~(elem[lruList[i]].Key = "" /\ elem[lruList[i]].Value = NilValue)

(***************************************************************************)
(* C24, amended: every node of freeList has the key "" and the value nil;  *)
(* a node of lruList has the key "" only as the entry the cache holds for  *)
(* the key "", which a caller stored, and it is then cleared-looking only  *)
(* if that caller stored the value nil.  A live node takes the key "" and  *)
(* the value nil in no other way than by Add("", nil) or Set("", nil).     *)
(***************************************************************************)
LooksCleared(fields, e) == fields[e].Key = "" /\ fields[e].Value = NilValue

FreeNodesAreCleared ==
    [][/\ \A i \in 1 .. Len(freeList') : LooksCleared(elem', freeList'[i])
       /\ \A i \in 1 .. Len(lruList') :
             LET e == lruList'[i] IN
             /\ elem'[e].Key = "" => (hit("")' /\ cache'[""] = e)
             /\ (LooksCleared(elem', e) /\ ~(e \in Range(lruList) /\ LooksCleared(elem, e)))
                => /\ path' \in {"Add.hit.expired", "Add.miss", "Set.hit", "Set.miss"}
                   /\ Add("", NilValue) \/ Set("", NilValue)]_vars

\* a cleared node lies in the free list after having been live, while the
\* live list holds the entry of the key "" with the value nil
FreeNodesAreClearedWitness ==
    /\ Len(freeList) >= 1
    /\ elem[Front(freeList)].Expiration > 0
    /\ hit("")
    /\ elem[cache[""]].Value = NilValue
    /\ path \in {"Delete.hit", "Get.hit.expired", "gc"}

(***************************************************************************)
(* The three ways a key that is not in the cache is admitted, as relations *)
(* between the lists before and after the step.                            *)
(* A step that leaves path at a miss and the clock where it is, is an Add  *)
(* or a Set of an absent key.                                              *)
(***************************************************************************)
MissPaths == {"Add.miss", "Set.miss"}

BackExpired == lruList # <<>> /\ now > elem[Back(lruList)].Expiration

TotalLen == Len(lruList) + Len(freeList)

\* (a) the back node of the live list is recycled where it is
RecycledInPlace ==
    LET e == Back(lruList) IN
    /\ lruList' = <<e>> \o SubSeq(lruList, 1, Len(lruList) - 1)
    /\ freeList' = freeList
    /\ elem[e].Key \notin DOMAIN cache'
    /\ elem'[e].Key \in DOMAIN cache' /\ cache'[elem'[e].Key] = e

\* (b) the front node of the free list goes to the front of the live list
TakenFromFreeList ==
    /\ lruList' = <<freeList[1]>> \o lruList
    /\ freeList' = Tail(freeList)
    /\ cache'[elem'[freeList[1]].Key] = freeList[1]

\* (c) a node that was in neither list goes to the front of the live list
Allocated ==
    /\ Len(lruList') = Len(lruList) + 1
    /\ Tail(lruList') = lruList
    /\ lruList'[1] \notin Range(lruList) \cup Range(freeList)
    /\ freeList' = freeList
    /\ cache'[elem'[lruList'[1]].Key] = lruList'[1]

\* the lists hold more nodes after the step only by one, and only when the
\* free list was empty and the live list was empty or had a fresh back
GrowsOnlyWhenNothingToReuse ==
    (Len(lruList') + Len(freeList') > TotalLen)
    => /\ Len(lruList') + Len(freeList') = TotalLen + 1
       /\ freeList = <<>>
       /\ lruList = <<>> \/ ~BackExpired

(***************************************************************************)
(* C25, as claimed: the admission of an absent key takes exactly one of    *)
(* three paths, in this priority: (a) the expired back of the live list is *)
(* recycled in place; (b) otherwise the front node of a free list that is  *)
(* not empty is taken; (c) otherwise a new node is allocated.  Hence the   *)
(* number of retained nodes grows, by one, only when the free list is      *)
(* empty and the live list is empty or has a back that is not expired.     *)
(***************************************************************************)
AdmissionTakesOneOfThreePaths ==
    [][/\ (path' \in MissPaths /\ now' = now) =>
             IF BackExpired THEN RecycledInPlace
             ELSE IF freeList # <<>> THEN TakenFromFreeList
             ELSE Allocated
       /\ GrowsOnlyWhenNothingToReuse]_vars

(***************************************************************************)
(* C25, amended: as claimed, but on path (c) the admission is refused with *)
(* ErrNotStored, and nothing changes, when the live-list length is the     *)
(* largest int; in every other case the new node is allocated.             *)
(***************************************************************************)
AdmissionPriority ==
    [][/\ (path' \in MissPaths /\ now' = now) =>
             IF BackExpired THEN RecycledInPlace /\ err' = ErrNil
             ELSE IF freeList # <<>> THEN TakenFromFreeList /\ err' = ErrNil
             ELSE IF Len(lruList) = MaxInt
             THEN /\ err' = ErrNotStored
                  /\ UNCHANGED <<lruList, freeList, cache, elem>>
             ELSE Allocated /\ err' = ErrNil
       /\ GrowsOnlyWhenNothingToReuse]_vars

\* a key has just been admitted at a time when entries can have expired,
\* with nodes left in the free list and more nodes than capacity retained
AdmissionPriorityWitness ==
    /\ path \in MissPaths /\ err = ErrNil
    /\ now >= 2
    /\ Len(freeList) >= 1
    /\ Len(lruList) >= 1
    /\ elem[lruList[1]].Expiration = now + maxAge
    /\ TotalLen > capacity

(***************************************************************************)
(* A removal by Delete or by Get of an expired key, as a relation between  *)
(* the lists before and after the step.  A step that leaves path at one of *)
(* these branches and the clock where it is, is such a removal.            *)
(***************************************************************************)
RemovalPaths == {"Delete.hit", "Get.hit.expired"}

\* the node the step has taken out of the live list
Removed == CHOOSE e \in Range(lruList) : e \notin Range(lruList')

\* the node is in neither list after the step
Discarded ==
    /\ freeList' = freeList
    /\ Len(lruList') = Len(lruList) - 1

\* the node, cleared, is at the front of the free list after the step
PushedOntoFreeList ==
    /\ freeList' = <<Removed>> \o freeList
    /\ Len(lruList') = Len(lruList) - 1
    /\ LooksCleared(elem', Removed)

(***************************************************************************)
(* C26, as claimed: when Delete or an expired Get removes a live node, the *)
(* node is discarded if and only if, with both lengths counted after the   *)
(* node has been taken out of the live list, |live| + |free| > capacity    *)
(* and |live| < capacity - capacity/5; in every other case the cleared     *)
(* node is pushed onto the front of the free list.                         *)
(***************************************************************************)
DiscardCountsAfterRemoval ==
    [][(path' \in RemovalPaths /\ now' = now) =>
          IF /\ (Len(lruList) - 1) + Len(freeList) > capacity
             /\ Len(lruList) - 1 < capacity - capacity \div 5
          THEN Discarded
          ELSE PushedOntoFreeList]_vars

(***************************************************************************)
(* C26, amended: the node is discarded if and only if, with both lengths   *)
(* counted before the node is taken out of the live list, so that the node *)
(* itself is counted, |live| + |free| > capacity and                       *)
(* |live| < capacity - capacity/5; in every other case the cleared node is *)
(* pushed onto the front of the free list.                                 *)
(***************************************************************************)
DiscardCountsBeforeRemoval ==
    [][(path' \in RemovalPaths /\ now' = now) =>
          IF /\ Len(lruList) + Len(freeList) > capacity
             /\ Len(lruList) < capacity - capacity \div 5
          THEN Discarded
          ELSE PushedOntoFreeList]_vars

\* a removal has emptied the live list of a Storage that had grown beyond
\* its capacity, and the lists hold capacity nodes
DiscardWitness ==
    /\ path \in RemovalPaths
    /\ lruList = <<>>
    /\ capacity >= 2
    /\ TotalLen = capacity
    /\ \E i \in 1 .. Len(freeList) : freeList[i] > capacity

(***************************************************************************)
(* C27: no operation but Delete removes an entry that is not expired.      *)
(* Add, Set, Get and the sweep take a key out of the cache only when the   *)
(* expiration of its entry is strictly earlier than the clock reading of   *)
(* the operation; an entry with now = expiration stays, on the node it was *)
(* on.                                                                     *)
(***************************************************************************)
OnlyExpiredEntriesAreRemoved ==
    [][~(path' \in DeletePaths /\ now' = now) =>
          \A k \in DOMAIN cache :
              now <= elem[cache[k]].Expiration
              => k \in DOMAIN cache' /\ cache'[k] = cache[k]]_vars

\* a sweep has just removed an expired entry and kept the entry whose
\* expiration is the clock reading
OnlyExpiredWitness ==
    /\ path \in gcPaths
    /\ \E k \in DOMAIN cache : elem[cache[k]].Expiration = now
    /\ freeList # <<>>
    /\ elem[freeList[1]].Expiration > 0
    /\ elem[freeList[1]].Expiration < now

(***************************************************************************)
(* C28: shrinking is not undone at once by growing.  Right after a step    *)
(* that discards nodes (Delete, Get of an expired key, the trim of a       *)
(* sweep) the free list is not empty; no step but an admission empties a   *)
(* free list; and an admission that finds a free list that is not empty    *)
(* allocates nothing.  So the first admission of an absent key after a     *)
(* discard reuses a node.                                                  *)
(***************************************************************************)
NoGrowthRightAfterDiscard ==
    [][/\ Len(lruList') + Len(freeList') < TotalLen => freeList' # <<>>
       /\ (freeList # <<>> /\ ~(path' \in MissPaths /\ now' = now))
             => freeList' # <<>>
       /\ (freeList # <<>> /\ path' \in MissPaths /\ now' = now)
             => /\ Len(lruList') + Len(freeList') = TotalLen
                /\ Range(lruList') \subseteq Range(lruList) \cup Range(freeList)]_vars

\* the trim of a sweep has just discarded nodes and left a live entry and
\* a free node
NoGrowthWitness ==
    /\ path = "gc.trim"
    /\ freeList # <<>>
    /\ lruList # <<>>
    /\ TotalLen = capacity

TypeOK ==
    /\ lruList \in Seq(NodeIds)
    /\ freeList \in Seq(NodeIds)
    /\ DOMAIN cache \subseteq Keys
    /\ \A k \in DOMAIN cache : cache[k] \in NodeIds
    /\ now \in 0 .. MaxTime
    /\ capacity \in 1 .. MaxCapacity
    /\ maxAge = MaxAge
    /\ intBits \in IntWidths
    /\ Len(lruList) + Len(freeList) <= MaxInt
    /\ err \in {ErrNil, ErrNotFound, ErrNotStored}
    /\ ret \in Values
    /\ mu \in Procs \cup {"free"}
    /\ DOMAIN pc \in {DOMAIN Atomic, Procs}
    /\ DOMAIN frame = DOMAIN pc

====
